---- MODULE Spec2Model ----
(***************************************************************************)
(* Model of txtai's HTML to Markdown extractor, class Extract of           *)
(* src/python/txtai/pipeline/data/textractor.py.                           *)
(*                                                                         *)
(* A Python string is a sequence of one-character strings.  The parsed     *)
(* document (the BeautifulSoup tree) is a nested record; a node of it is   *)
(* addressed by its path, the sequence of child indices from the root, so  *)
(* that node.parent is the path without its last index.                    *)
(***************************************************************************)
EXTENDS Integers, Sequences, FiniteSets, TLC

VARIABLES
    html,        \* the tree as parsed (line 211)
    soup,        \* the tree __call__ works on
    paragraphs,  \* self.paragraphs
    sections,    \* self.sections
    pc,          \* the position of __call__
    article,     \* the variable article of __call__
    todo,        \* the scope elements the loop of line 222 has yet to see
    nodes,       \* the list nodes of __call__
    visited,     \* the elements whose text is in nodes, in order
    result,      \* the value __call__ returns
    raised,      \* __call__ ended by raising KeyError
    cnode,       \* the node of the last call of process
    cmode,       \* its argument article
    ctext        \* the text it returned

vars == <<html, soup, paragraphs, sections, pc, article, todo, nodes, visited,
          result, raised, cnode, cmode, ctext>>

-----------------------------------------------------------------------------
(* Characters and Python's str operations                                  *)

NL == "\n"
FF == "\f"
NBSP == "nbsp"
SP == " "
\* the backquote character, which a TLA+ string cannot hold
BACKTICK == "backtick"

\* the characters str.strip() removes
Whitespace == {SP, NL, FF, NBSP, "\t"}

RECURSIVE LStrip(_)
LStrip(s) ==
    IF s # <<>> /\ Head(s) \in Whitespace THEN LStrip(Tail(s)) ELSE s

RECURSIVE RStrip(_)
RStrip(s) ==
    IF s # <<>> /\ s[Len(s)] \in Whitespace
    THEN RStrip(SubSeq(s, 1, Len(s) - 1)) ELSE s

Strip(s) == RStrip(LStrip(s))

\* sep.join(list)
RECURSIVE Join(_, _)
Join(sep, list) ==
    IF list = <<>> THEN <<>>
    ELSE IF Len(list) = 1 THEN list[1]
    ELSE list[1] \o sep \o Join(sep, Tail(list))

\* the concatenation of a list of lists
RECURSIVE Flatten(_)
Flatten(ss) == IF ss = <<>> THEN <<>> ELSE Head(ss) \o Flatten(Tail(ss))

\* s.split(ch): always at least one piece
RECURSIVE Split(_, _)
Split(s, ch) ==
    IF \A i \in 1..Len(s) : s[i] # ch THEN <<s>>
    ELSE LET k == CHOOSE i \in 1..Len(s) :
                      s[i] = ch /\ \A j \in 1..(i - 1) : s[j] # ch
         IN  <<SubSeq(s, 1, k - 1)>> \o Split(SubSeq(s, k + 1, Len(s)), ch)

\* text.replace("\xa0\n", "\n\n")
RECURSIVE ReplaceNbspNl(_)
ReplaceNbspNl(s) ==
    IF Len(s) < 2 THEN s
    ELSE IF s[1] = NBSP /\ s[2] = NL
         THEN <<NL, NL>> \o ReplaceNbspNl(SubSeq(s, 3, Len(s)))
         ELSE <<s[1]>> \o ReplaceNbspNl(Tail(s))

\* str(n) of a natural number
Digit(n) ==
    CASE n = 0 -> "0" [] n = 1 -> "1" [] n = 2 -> "2" [] n = 3 -> "3"
      [] n = 4 -> "4" [] n = 5 -> "5" [] n = 6 -> "6" [] n = 7 -> "7"
      [] n = 8 -> "8" [] n = 9 -> "9"

RECURSIVE Decimal(_)
Decimal(n) == IF n < 10 THEN <<Digit(n)>> ELSE Decimal(n \div 10) \o <<Digit(n % 10)>>

\* "#" * n
RECURSIVE Repeat(_, _)
Repeat(s, n) == IF n <= 0 THEN <<>> ELSE s \o Repeat(s, n - 1)

-----------------------------------------------------------------------------
(* The parsed tree                                                         *)

\* a NavigableString: no name
Str(t) == [name |-> "", text |-> t, kids |-> <<>>, class |-> <<>>,
           href |-> <<>>, mname |-> <<>>, content |-> <<>>]

\* a Tag with children; attributes are absent (<<>>) unless set
Tag(n, k) == [name |-> n, text |-> <<>>, kids |-> k, class |-> <<>>,
              href |-> <<>>, mname |-> <<>>, content |-> <<>>]

RECURSIVE NodeAt(_, _)
NodeAt(d, p) == IF p = <<>> THEN d ELSE NodeAt(d.kids[Head(p)], Tail(p))

ParentPath(p) == SubSeq(p, 1, Len(p) - 1)

NameAt(d, p) == NodeAt(d, p).name

\* node.text / get_text(): all strings below the node, in document order
RECURSIVE TextOf(_)
TextOf(n) ==
    IF n.name = "" THEN n.text
    ELSE LET RECURSIVE Cat(_)
             Cat(i) == IF i > Len(n.kids) THEN <<>>
                       ELSE TextOf(n.kids[i]) \o Cat(i + 1)
         IN  Cat(1)

TextAt(d, p) == TextOf(NodeAt(d, p))

\* paths of all descendants of the node at p, in document order
RECURSIVE Descendants(_, _)
Descendants(d, p) ==
    LET n == NodeAt(d, p)
        RECURSIVE Walk(_)
        Walk(i) == IF i > Len(n.kids) THEN <<>>
                   ELSE <<p \o <<i>>>> \o Descendants(d, p \o <<i>>) \o Walk(i + 1)
    IN  Walk(1)

Range(f) == {f[i] : i \in DOMAIN f}

\* node.find_all(names)
FindAll(d, p, names) ==
    SelectSeq(Descendants(d, p), LAMBDA q : NameAt(d, q) \in names)

-----------------------------------------------------------------------------
(* Extract: node classification helpers                                    *)

NoArticle == ""

\* Extract.isheader
IsHeader(d, p) == NameAt(d, p) \in {"h1", "h2", "h3", "h4", "h5", "h6"}

\* int(node.name[1]) of a heading
HeaderLevel(name) ==
    CASE name = "h1" -> 1 [] name = "h2" -> 2 [] name = "h3" -> 3
      [] name = "h4" -> 4 [] name = "h5" -> 5 [] name = "h6" -> 6

\* Extract.islink as it would be if only the node itself were looked at
IsLinkSelfOnly(d, p) ==
    /\ NameAt(d, p) = "a"
    /\ NameAt(d, ParentPath(p)) \notin {"th", "td"}

\* Extract.islink: the node or an ancestor is an <a>, unless the node's
\* immediate parent is a table cell
IsLink(d, p) ==
    /\ \E k \in 0..Len(p) : NameAt(d, SubSeq(p, 1, k)) = "a"
    /\ NameAt(d, ParentPath(p)) \notin {"th", "td"}

\* Extract.children: the children without whitespace-only strings.  The code
\* returns None for a string or an element without contents; every caller
\* only tests the result for truth, so None and [] are both <<>> here.
Children(d, p) ==
    LET n == NodeAt(d, p)
    IN  IF n.name # "" /\ n.kids # <<>>
        THEN SelectSeq([i \in 1..Len(n.kids) |-> p \o <<i>>],
                       LAMBDA q : NameAt(d, q) # "" \/ Strip(TextAt(d, q)) # <<>>)
        ELSE <<>>

\* Extract.iscontainer
IsContainer(d, p, children) ==
    /\ children # <<>>
    /\ \/ NameAt(d, p) \in {"div", "body", "article"}
       \/ ~ \E i \in 1..Len(children) : NameAt(d, children[i]) = ""

\* the page break test of Extract.process
IsPage(d, p) ==
    LET n == NodeAt(d, p)
    IN  n.name # "" /\ \E i \in 1..Len(n.class) : n.class[i] = "page"

\* Extract.articletext
ArticleText(d, p, text) ==
    LET name == NameAt(d, p)
        valid == {"p", "th", "td", "li", "a", "b", "strong", "i", "em"}
        kept == IF (name \in valid \/ IsHeader(d, p)) /\ ~IsLink(d, p)
                THEN text ELSE <<>>
        repl == ReplaceNbspNl(kept)
    IN  IF kept = <<>> THEN <<>>
        ELSE IF name = "p"
             THEN Strip(repl) \o (IF paragraphs THEN <<NL, NL>> ELSE <<NL>>)
             ELSE repl

-----------------------------------------------------------------------------
(* Extract: the rules                                                      *)

NoneText == <<"N", "o", "n", "e">>

\* str(target.get("href"))
HrefOf(n) == IF n.href = <<>> THEN NoneText ELSE n.href[1]

\* the loop body of Extract.text as it would be if the markers were those
\* of the innermost element around the item's first string
RECURSIVE Innermost(_, _)
Innermost(d, x) ==
    IF NodeAt(d, x).kids # <<>> /\ NodeAt(d, x).kids[1].name # ""
    THEN Innermost(d, x \o <<1>>) ELSE x

TextPieceInnermost(d, p, x) ==
    LET target == IF NameAt(d, x) # "" THEN Innermost(d, x) ELSE p
        tname == NameAt(d, target)
        text == TextAt(d, x)
    IN  IF Strip(text) # <<>>
        THEN IF tname \in {"b", "strong"}
             THEN <<"*", "*">> \o Strip(text) \o <<"*", "*", SP>>
             ELSE IF tname \in {"i", "em"}
             THEN <<"*">> \o Strip(text) \o <<"*", SP>>
             ELSE IF tname = "a"
             THEN <<"[">> \o Strip(text) \o <<"]", "(">>
                    \o HrefOf(NodeAt(d, target)) \o <<")", SP>>
             ELSE text
        ELSE text

\* the body of the loop of Extract.text: the piece one item x contributes
\* to the text of node p
TextPiece(d, p, x) ==
    LET target == IF NameAt(d, x) # "" THEN x ELSE p
        tname == NameAt(d, target)
        text == TextAt(d, x)
    IN  IF Strip(text) # <<>>
        THEN IF tname \in {"b", "strong"}
             THEN <<"*", "*">> \o Strip(text) \o <<"*", "*", SP>>
             ELSE IF tname \in {"i", "em"}
             THEN <<"*">> \o Strip(text) \o <<"*", SP>>
             ELSE IF tname = "a"
             THEN <<"[">> \o Strip(text) \o <<"]", "(">>
                    \o HrefOf(NodeAt(d, target)) \o <<")", SP>>
             ELSE text
        ELSE text

\* the items Extract.text walks: the children, or the node itself
TextItems(d, p) == IF Children(d, p) # <<>> THEN Children(d, p) ELSE <<p>>

\* "".join(texts) of Extract.text
TextJoined(d, p) ==
    LET items == TextItems(d, p)
    IN  Join(<<>>, [i \in 1..Len(items) |-> TextPiece(d, p, items[i])])

\* Extract.text
Text(d, p, art) ==
    LET joined == TextJoined(d, p)
        text == IF art # NoArticle THEN ArticleText(d, p, joined) ELSE joined
    IN  IF NameAt(d, p) # "" /\ text # <<>> THEN text ELSE Strip(text)

\* Extract.header
Header(d, p, art) ==
    LET hashes == Repeat(<<"#">>, HeaderLevel(NameAt(d, p)))
        text == Text(d, p, art)
        level == (IF sections THEN <<FF>> ELSE <<NL>>) \o hashes
    IN  IF Strip(text) # <<>> THEN level \o <<SP>> \o LStrip(text) ELSE <<>>

\* Extract.block
Block(d, p) ==
    LET lines == Split(Strip(TextAt(d, p)), NL)
        text == Join(<<NL>>, [i \in 1..Len(lines) |-> <<">", SP>> \o lines[i]])
    IN  text \o (IF paragraphs THEN <<NL, NL>> ELSE <<NL>>)

\* Extract.code
Code(d, p) ==
    LET fence == <<BACKTICK, BACKTICK, BACKTICK>>
        text == fence \o <<NL>> \o Strip(TextAt(d, p)) \o <<NL>> \o fence
    IN  text \o (IF paragraphs THEN <<NL, NL>> ELSE <<NL>>)

RECURSIVE Process(_, _, _)
RECURSIVE ItemsElements(_, _, _)
RECURSIVE TableElements(_, _, _)

\* the prefix Extract.items gives the x-th <li> (x counts from 0)
ItemPrefix(listname, x) ==
    IF listname = "ul" THEN <<"-">> ELSE Decimal(x + 1) \o <<".">>

\* the list `elements` Extract.items builds
ItemsElements(d, p, art) ==
    LET lis == FindAll(d, p, {"li"})
        RECURSIVE Loop(_)
        Loop(i) ==
            IF i > Len(lis) THEN <<>>
            ELSE LET text == Process(d, lis[i], art)
                 IN  (IF text # <<>>
                      THEN <<ItemPrefix(NameAt(d, p), i - 1) \o <<SP>> \o text>>
                      ELSE <<>>) \o Loop(i + 1)
    IN  Loop(1)

\* Extract.items
Items(d, p, art) == Join(<<NL>>, ItemsElements(d, p, art))

\* the header format row Extract.table adds
SeparatorRow(ncolumns) == Repeat(<<"|", "-", "-", "-">>, ncolumns) \o <<"|">>

\* the row Extract.table builds from a <tr>
TableRow(d, row, art) ==
    LET columns == FindAll(d, row, {"th", "td"})
    IN  <<"|">> \o Join(<<"|">>, [i \in 1..Len(columns) |->
                                     Process(d, columns[i], art)]) \o <<"|">>

\* Extract.table as it would be if the flag header were never set
TableElementsNoFlag(d, p, art) ==
    LET rows == FindAll(d, p, {"tr"})
    IN  Flatten([i \in 1..Len(rows) |->
            <<TableRow(d, rows[i], art)>>
              \o (IF Len(rows) > 1
                  THEN <<SeparatorRow(Len(FindAll(d, rows[i], {"th", "td"})))>>
                  ELSE <<>>)])

\* the list `elements` Extract.table builds
TableElements(d, p, art) ==
    LET rows == FindAll(d, p, {"tr"})
        RECURSIVE Loop(_, _)
        Loop(i, header) ==
            IF i > Len(rows) THEN <<>>
            ELSE LET columns == FindAll(d, rows[i], {"th", "td"})
                     sep == ~header /\ Len(rows) > 1
                 IN  <<TableRow(d, rows[i], art)>>
                       \o (IF sep THEN <<SeparatorRow(Len(columns))>> ELSE <<>>)
                       \o Loop(i + 1, header \/ sep)
    IN  Loop(1, FALSE)

\* Extract.table
Table(d, p, art) == Join(<<NL>>, TableElements(d, p, art))

\* the tags Extract.process skips
SkipTags(art) == {"aside"} \cup (IF art # NoArticle THEN {} ELSE {"header", "footer"})

\* the container branch of Extract.process
ContainerText(d, p, art) ==
    LET children == Children(d, p)
        texts == [i \in 1..Len(children) |-> Process(d, children[i], art)]
    IN  Join(<<NL>>, SelectSeq(texts, LAMBDA t : t # <<>> \/ art = NoArticle))

\* the page break suffix of Extract.process
PageSuffix(d, p, text) ==
    IF IsPage(d, p) /\ sections THEN text \o <<FF>> ELSE text

\* Extract.process as it would be with the page break added after the
\* heading rule too
ProcessPageAfterHeader(d, p, art) ==
    LET name == NameAt(d, p)
    IN  IF IsHeader(d, p) THEN PageSuffix(d, p, Header(d, p, art))
        ELSE IF name \in {"blockquote", "q"} THEN Block(d, p)
        ELSE IF name \in {"ul", "ol"} THEN Items(d, p, art)
        ELSE IF name \in {"code", "pre"} THEN Code(d, p)
        ELSE IF name = "table" THEN Table(d, p, art)
        ELSE IF name \in SkipTags(art) THEN <<>>
        ELSE PageSuffix(d, p,
                 IF IsContainer(d, p, Children(d, p))
                 THEN ContainerText(d, p, art)
                 ELSE Text(d, p, art))

\* Extract.process
Process(d, p, art) ==
    LET name == NameAt(d, p)
    IN  IF IsHeader(d, p) THEN Header(d, p, art)
        ELSE IF name \in {"blockquote", "q"} THEN Block(d, p)
        ELSE IF name \in {"ul", "ol"} THEN Items(d, p, art)
        ELSE IF name \in {"code", "pre"} THEN Code(d, p)
        ELSE IF name = "table" THEN Table(d, p, art)
        ELSE IF name \in SkipTags(art) THEN <<>>
        ELSE PageSuffix(d, p,
                 IF IsContainer(d, p, Children(d, p))
                 THEN ContainerText(d, p, art)
                 ELSE Text(d, p, art))

\* soup.find(names): the first match or none, as a sequence of 0 or 1 paths
Find(d, names) ==
    LET all == FindAll(d, <<>>, names)
    IN  IF all = <<>> THEN <<>> ELSE <<all[1]>>

\* soup.find("meta", attrs={"name": "description"})
FindDescription(d) ==
    LET all == SelectSeq(FindAll(d, <<>>, {"meta"}),
                         LAMBDA q : NodeAt(d, q).mname = <<"description">>)
    IN  IF all = <<>> THEN <<>> ELSE <<all[1]>>

\* description["content"] raises KeyError when the attribute is absent
MetadataRaises(d) ==
    LET description == FindDescription(d)
    IN  description # <<>> /\ NodeAt(d, description[1]).content = <<>>

\* Extract.metadata as it would be without lines 298-299
MetadataNoSeparator(d) ==
    LET title == Find(d, {"title"})
        head == IF title # <<>> /\ TextAt(d, title[1]) # <<>>
                THEN <<<<"*", "*">> \o Strip(TextAt(d, title[1])) \o <<"*", "*">>>>
                ELSE <<>>
        description == FindDescription(d)
        content == IF description # <<>> /\ NodeAt(d, description[1]).content # <<>>
                   THEN NodeAt(d, description[1]).content[1] ELSE <<>>
    IN  head \o (IF content # <<>>
                 THEN <<<<NL, "*">> \o Strip(content) \o <<"*">>>>
                 ELSE <<>>)

\* Extract.metadata, when it does not raise
Metadata(d) ==
    LET title == Find(d, {"title"})
        head == IF title # <<>> /\ TextAt(d, title[1]) # <<>>
                THEN <<<<"*", "*">> \o Strip(TextAt(d, title[1])) \o <<"*", "*">>>>
                ELSE <<>>
        description == FindDescription(d)
        content == IF description # <<>> /\ NodeAt(d, description[1]).content # <<>>
                   THEN NodeAt(d, description[1]).content[1] ELSE <<>>
        metadata == head \o (IF content # <<>>
                             THEN <<<<NL, "*">> \o Strip(content) \o <<"*">>>>
                             ELSE <<>>)
    IN  IF metadata # <<>>
        THEN metadata \o <<IF sections THEN <<FF>> ELSE <<NL, NL>>>>
        ELSE metadata

\* line 317 as it would be with the pattern "#+ " found anywhere in the line
IsMarkdownHeadingAnywhere(line) ==
    \E k \in 2..Len(line) : line[k] = SP /\ line[k - 1] = "#"

\* re.search(r"^#+ ", line)
IsMarkdownHeading(line) ==
    \E k \in 1..Len(line) :
        /\ k > 1
        /\ line[k] = SP
        /\ \A j \in 1..(k - 1) : line[j] = "#"

\* Extract.default
Default(d) ==
    LET lines == Split(TextOf(d), NL)
    IN  Join(<<NL>>, [i \in 1..Len(lines) |->
                         IF sections /\ IsMarkdownHeading(lines[i])
                         THEN <<FF>> \o lines[i] ELSE lines[i]])

-----------------------------------------------------------------------------
(* The input documents                                                     *)

\* the BeautifulSoup object
Doc(kids) == Tag("[document]", kids)

\* <html><body>...</body></html>
Body(kids) == Doc(<<Tag("html", <<Tag("body", kids)>>)>>)

WithClass(n, c) == [n EXCEPT !.class = c]
WithHref(n, h) == [n EXCEPT !.href = <<h>>]
WithMeta(n, m) == [n EXCEPT !.mname = <<m>>]
WithContent(n, c) == [n EXCEPT !.content = <<c>>]

\* <html><head>...</head><body>...</body></html>
Page(headkids, bodykids) ==
    Doc(<<Tag("html", <<Tag("head", headkids), Tag("body", bodykids)>>)>>)

\* all sequences over S of length 1..n
SeqsUpTo(S, n) == UNION {[1..k -> S] : k \in 1..n}

Link(kids) == WithHref(Tag("a", kids), <<"u">>)

\* bounds of the input families
MaxLevel == 2
MaxRows == 3
MaxCols == 2
MaxItems == 3
MaxInline == 2
MaxScopes == 2

(* headings *)
HName(l) ==
    CASE l = 1 -> "h1" [] l = 2 -> "h2" [] l = 3 -> "h3"
      [] l = 4 -> "h4" [] l = 5 -> "h5" [] l = 6 -> "h6"

HeadingKids ==
    { <<Str(<<"a">>)>>,
      <<Str(<<SP, "a", SP>>)>>,
      <<Str(<<SP>>)>>,
      <<>>,
      <<Str(<<"t", SP>>), Tag("b", <<Str(<<"x">>)>>)>> }

Headings ==
    { WithClass(Tag(HName(l), k), c) :
        l \in 1..MaxLevel, k \in HeadingKids, c \in {<<>>, <<"page">>, <<"x">>} }

HeadingDocs ==
    UNION { { Body(<<h>>),
              Body(<<Link(<<h>>)>>),
              Body(<<WithClass(Tag("div", <<Str(<<"c">>), h>>), <<"page">>)>>) }
            : h \in Headings }

(* tables *)
CellKinds == {"plain", "multi", "link", "para", "paras", "empty"}

CellKids(k) ==
    CASE k = "plain" -> <<Str(<<"a">>)>>
      [] k = "multi" -> <<Str(<<"a", NL, "b">>)>>
      [] k = "link" -> <<Link(<<Str(<<"x">>)>>)>>
      [] k = "para" -> <<Tag("p", <<Str(<<"c">>)>>)>>
      [] k = "paras" -> <<Tag("p", <<Str(<<"c">>)>>), Tag("p", <<Str(<<"d">>)>>)>>
      [] k = "empty" -> <<>>

Grid(n, m, k) ==
    Tag("table", [r \in 1..n |->
        Tag("tr", [c \in 1..m |-> Tag(IF r = 1 THEN "th" ELSE "td", CellKids(k))])])

\* a table inside the first cell of a table
NestedGrid(n) ==
    Tag("table", <<Tag("tr", <<Tag("td", <<Grid(n, 1, "plain")>>)>>),
                   Tag("tr", <<Tag("td", <<Str(<<"b">>)>>)>>)>>)

\* rows of different lengths
RaggedGrid ==
    Tag("table", <<Tag("tr", <<Tag("th", <<Str(<<"a">>)>>)>>),
                   Tag("tr", <<Tag("td", <<Str(<<"b">>)>>), Tag("td", <<Str(<<"c">>)>>)>>)>>)

Tables ==
    { Grid(n, m, k) : n \in 1..MaxRows, m \in 1..MaxCols, k \in CellKinds }
      \cup { NestedGrid(1), NestedGrid(2), RaggedGrid, Tag("table", <<>>) }

TableDocs == { Body(<<t>>) : t \in Tables }

(* lists *)
ItemKinds == {"plain", "empty", "nested", "paras"}

\* the children of the i-th <li>; every item has letters of its own
ItemKids(k, i) ==
    LET ch == <<"a", "b", "c", "d", "e">>[i]
        in == <<"p", "q", "r", "s", "v">>[i]
    IN  CASE k = "plain" -> <<Str(<<ch>>)>>
          [] k = "empty" -> <<>>
          [] k = "nested" -> <<Str(<<ch>>), Tag("ul", <<Tag("li", <<Str(<<in>>)>>)>>)>>
          [] k = "paras" -> <<Tag("p", <<Str(<<ch>>)>>), Tag("p", <<Str(<<in>>)>>)>>

ListOf(name, kinds) ==
    Tag(name, [i \in 1..Len(kinds) |-> Tag("li", ItemKids(kinds[i], i))])

Lists ==
    { ListOf(name, kinds) : name \in {"ul", "ol"}, kinds \in SeqsUpTo(ItemKinds, MaxItems) }
      \cup { Tag("ul", <<Tag("li", <<Link(<<Str(<<"n">>)>>)>>), Tag("li", <<Str(<<"a">>)>>)>>),
             Tag("ol", <<Tag("li", <<Link(<<Str(<<"n">>)>>)>>), Tag("li", <<Str(<<"a">>)>>)>>),
             Tag("ul", <<Tag("li", <<Tag("p", <<Str(<<"a">>)>>),
                                     Tag("ul", <<Tag("li", <<Str(<<"p">>)>>)>>)>>)>>) }

ListDocs == { Body(<<l>>) : l \in Lists }

(* inline text *)
InlineKinds == {"b", "strong-i", "em-strong", "a", "span", "b-blank"}

InlineNode(k) ==
    CASE k = "b" -> Tag("b", <<Str(<<"t">>)>>)
      [] k = "strong-i" -> Tag("strong", <<Tag("i", <<Str(<<SP, "t">>)>>)>>)
      [] k = "em-strong" -> Tag("em", <<Tag("strong", <<Str(<<"t">>)>>), Link(<<Str(<<"l">>)>>)>>)
      [] k = "a" -> Link(<<Tag("b", <<Str(<<"t">>)>>)>>)
      [] k = "span" -> Tag("span", <<Tag("b", <<Str(<<"t">>)>>)>>)
      [] k = "b-blank" -> Tag("b", <<Str(<<SP>>)>>)

InlineKidsOf(ks) == [i \in 1..Len(ks) |-> InlineNode(ks[i])]

\* a paragraph of raw text followed by elements, and some other mixtures
InlineDocs ==
    { Body(<<Tag("p", <<Str(<<"w", SP>>)>> \o InlineKidsOf(ks))>>) :
        ks \in SeqsUpTo(InlineKinds, MaxInline) }
      \cup { Body(<<Tag("p", InlineKidsOf(<<k>>))>>) : k \in InlineKinds }
      \cup { Body(<<Tag("p", <<Str(<<"w", SP>>), Tag("a", <<Str(<<"t">>)>>)>>)>>),
             Body(<<Tag("p", <<Tag("i", <<Str(<<"t", SP>>)>>), Str(<<SP, "w">>)>>)>>),
             Body(<<Tag("p", <<Str(<<"w", SP>>), Tag("em", <<Str(<<"t">>)>>), Str(<<"v">>)>>)>>),
             Body(<<Tag("p", <<Tag("strong", <<Str(<<"t">>)>>), Tag("em", <<Str(<<"t">>)>>)>>)>>),
             Body(<<Tag("li", <<Tag("em", <<Tag("strong", <<Str(<<"t">>)>>)>>), Str(<<SP, "w">>)>>)>>) }

(* links *)
LinkDocs ==
    { Body(<<Link(<<Str(<<"n">>)>>)>>),
      Body(<<WithClass(Link(<<Str(<<"n">>)>>), <<"page">>)>>),
      Body(<<Link(<<Tag("b", <<Str(<<"n">>)>>)>>)>>),
      Body(<<Link(<<Tag("p", <<Str(<<"n">>)>>)>>)>>),
      Body(<<Link(<<Tag("div", <<Tag("p", <<Str(<<"n">>)>>)>>)>>)>>),
      Body(<<Link(<<Tag("blockquote", <<Str(<<"n">>)>>)>>)>>),
      Body(<<Link(<<Tag("div", <<Tag("pre", <<Str(<<"n">>)>>)>>)>>)>>),
      Body(<<Link(<<Tag("aside", <<Str(<<"z">>)>>)>>)>>),
      Body(<<Link(<<Tag("ul", <<Tag("li", <<Str(<<"n">>)>>)>>)>>)>>),
      Body(<<Link(<<Grid(1, 1, "plain")>>)>>),
      Body(<<Tag("p", <<Str(<<"w", SP>>), Link(<<Str(<<"n">>)>>)>>)>>),
      Body(<<Tag("nav", <<Link(<<Str(<<"n">>)>>), Link(<<Str(<<"m">>)>>)>>)>>),
      Body(<<Tag("table", <<Tag("tr", <<Tag("td", <<Link(<<Tag("b", <<Str(<<"n">>)>>)>>)>>)>>)>>)>>),
      Body(<<Tag("table", <<Tag("tr", <<Tag("td", <<Str(<<"w", SP>>), Link(<<Str(<<"n">>)>>)>>)>>)>>)>>),
      Body(<<Link(<<Tag("table", <<Tag("tr", <<Tag("td", <<Tag("p", <<Str(<<"n">>)>>)>>)>>)>>)>>)>>) }

(* metadata *)
Titles ==
    { <<>>,
      <<Tag("title", <<Str(<<"T">>)>>)>>,
      <<Tag("title", <<Str(<<SP, "T", SP>>)>>)>>,
      <<Tag("title", <<>>)>>,
      <<Tag("title", <<Str(<<SP>>)>>)>> }

Metas ==
    { <<>>,
      <<WithContent(WithMeta(Tag("meta", <<>>), "description"), <<"D">>)>>,
      <<WithContent(WithMeta(Tag("meta", <<>>), "description"), <<SP, "D">>)>>,
      <<WithContent(WithMeta(Tag("meta", <<>>), "description"), <<>>)>>,
      <<WithMeta(Tag("meta", <<>>), "description")>>,
      <<WithContent(WithMeta(Tag("meta", <<>>), "keywords"), <<"K">>),
        WithContent(WithMeta(Tag("meta", <<>>), "description"), <<"D">>)>> }

Contents ==
    { <<Tag("p", <<Str(<<"a">>)>>)>>,
      <<Tag("h1", <<Str(<<"a">>)>>), Tag("p", <<Str(<<"b">>)>>)>>,
      <<Tag("article", <<Tag("p", <<Str(<<"a">>)>>)>>)>> }

MetadataDocs ==
    { Page(t \o m, c) : t \in Titles, m \in Metas, c \in Contents }
      \cup { Doc(<<Tag("html", <<Tag("head", t \o m)>>)>>) : t \in Titles, m \in Metas }

(* skipped elements: their text is z (aside) or y (header, footer) *)
Skipped ==
    { Tag("aside", <<Str(<<"z">>)>>),
      Tag("aside", <<Tag("p", <<Str(<<"z">>)>>)>>),
      Tag("header", <<Str(<<"y">>)>>),
      Tag("footer", <<Tag("p", <<Str(<<"y">>)>>)>>) }

SkippedDocs ==
    UNION { { Body(<<k>>),
              Body(<<Tag("p", <<Str(<<"a">>)>>), k>>),
              Body(<<Tag("section", <<k, Tag("p", <<Str(<<"a">>)>>)>>)>>),
              Body(<<Tag("p", <<Str(<<"a", SP>>), k>>)>>),
              Body(<<Tag("p", <<k>>)>>),
              Body(<<Tag("blockquote", <<Str(<<"a", NL>>), k>>)>>),
              Body(<<Tag("pre", <<k>>)>>),
              Body(<<Tag("ul", <<Tag("li", <<k>>), Tag("li", <<Str(<<"a">>), k>>)>>)>>),
              Body(<<Tag("table", <<Tag("tr", <<Tag("td", <<Str(<<"a">>), k>>)>>)>>)>>),
              Body(<<Tag("h1", <<Str(<<"a">>), k>>)>>),
              Body(<<Tag("article", <<Tag("p", <<Str(<<"a">>)>>), k>>)>>) }
            : k \in Skipped }

(* scopes *)
ScopeKinds == {"article", "article-bare", "main", "main-bare", "div", "nested"}

ScopeNode(k, i) ==
    LET ch == <<"a", "b", "c", "d">>[i]
    IN  CASE k = "article" -> Tag("article", <<Tag("p", <<Str(<<ch>>)>>)>>)
          [] k = "article-bare" -> Tag("article", <<Tag("h1", <<Str(<<ch>>)>>)>>)
          [] k = "main" -> Tag("main", <<Tag("p", <<Str(<<ch>>)>>)>>)
          [] k = "main-bare" -> Tag("main", <<Tag("li", <<Str(<<ch>>)>>)>>)
          [] k = "div" -> Tag("div", <<Tag("p", <<Str(<<ch>>)>>)>>)
          [] k = "nested" -> Tag("main", <<Tag("article", <<Tag("p", <<Str(<<ch>>)>>)>>),
                                           Tag("style", <<Str(<<"k">>)>>)>>)

ScopeDocs ==
    UNION { { Body([i \in 1..Len(ks) |-> ScopeNode(ks[i], i)]),
              Doc([i \in 1..Len(ks) |-> ScopeNode(ks[i], i)]) }
            : ks \in SeqsUpTo(ScopeKinds, MaxScopes) }
      \cup { Doc(<<Str(<<"#", SP, "a", NL, "b", NL, NL, "#", "#", SP, "c", NL>>)>>),
             Doc(<<Str(<<"#", "a", NL, SP, "#", SP, "b">>)>>),
             Doc(<<Str(<<"a">>), Tag("script", <<Str(<<"j">>)>>), Tag("p", <<Str(<<"b">>)>>)>>),
             Body(<<Tag("script", <<Str(<<"j">>)>>), Tag("p", <<Str(<<"b">>)>>)>>),
             Body(<<Tag("article", <<Tag("p", <<Str(<<"b">>), Tag("script", <<Str(<<"j">>)>>)>>)>>)>>),
             Body(<<Tag("style", <<Str(<<"k">>)>>),
                    Tag("main", <<Tag("p", <<Str(<<"b">>)>>)>>)>>),
             Doc(<<>>) }

Documents ==
    HeadingDocs \cup TableDocs \cup ListDocs \cup InlineDocs \cup LinkDocs
      \cup MetadataDocs \cup SkippedDocs \cup ScopeDocs

-----------------------------------------------------------------------------
(* Extract.__call__, step by step                                          *)

\* lines 214-215 as they would be for the children of the root only
DecomposedShallow(n) ==
    [n EXCEPT !.kids = SelectSeq(n.kids, LAMBDA k : k.name \notin {"script", "style"})]

\* script.decompose() for every <script> and <style>
RECURSIVE Decomposed(_)
Decomposed(n) ==
    IF n.name = "" THEN n
    ELSE LET keep == SelectSeq(n.kids, LAMBDA k : k.name \notin {"script", "style"})
         IN  [n EXCEPT !.kids = [i \in 1..Len(keep) |-> Decomposed(keep[i])]]

\* line 218 as it would be with "main" tried first
ArticleOfMainFirst(d) ==
    IF Find(d, {"main"}) # <<>> THEN "main"
    ELSE IF Find(d, {"article"}) # <<>> THEN "article"
    ELSE NoArticle

\* next((x for x in ["article", "main"] if soup.find(x)), None)
ArticleOf(d) ==
    IF Find(d, {"article"}) # <<>> THEN "article"
    ELSE IF Find(d, {"main"}) # <<>> THEN "main"
    ELSE NoArticle

\* soup.find_all(article if article else "body")
ScopeNodes(d, art) == FindAll(d, <<>>, {IF art # NoArticle THEN art ELSE "body"})

\* line 224 as it would be without the test for a paragraph
KeepsNodeAlways(d, p, art) == TRUE

\* not article or node.find("p")
KeepsNode(d, p, art) == art = NoArticle \/ FindAll(d, p, {"p"}) # <<>>

\* "\n".join(self.metadata(soup) + nodes)
Joined(d, texts) == Join(<<NL>>, Metadata(d) \o texts)

\* lines 213-215: the script and style subtrees are removed from the tree
Decompose ==
    /\ pc = "parsed"
    /\ soup' = Decomposed(soup)
    /\ pc' = "decomposed"
    /\ UNCHANGED <<html, paragraphs, sections, article, todo, nodes, visited, result,
                   raised, cnode, cmode, ctext>>

\* lines 217-222: the root mode and the elements of the scope tag
FindArticle ==
    /\ pc = "decomposed"
    /\ article' = ArticleOf(soup)
    /\ todo' = ScopeNodes(soup, ArticleOf(soup))
    /\ pc' = "collect"
    /\ UNCHANGED <<html, soup, paragraphs, sections, nodes, visited, result, raised,
                   cnode, cmode, ctext>>

\* lines 222-225: one round of the loop, for an element that is kept
VisitNode ==
    /\ pc = "collect"
    /\ todo # <<>>
    /\ KeepsNode(soup, Head(todo), article)
    /\ nodes' = Append(nodes, Process(soup, Head(todo), article))
    /\ visited' = Append(visited, Head(todo))
    /\ cnode' = Head(todo)
    /\ cmode' = article
    /\ ctext' = Process(soup, Head(todo), article)
    /\ todo' = Tail(todo)
    /\ UNCHANGED <<html, soup, paragraphs, sections, pc, article, result, raised>>

\* lines 222-224: one round of the loop, for an article section without <p>
SkipNode ==
    /\ pc = "collect"
    /\ todo # <<>>
    /\ ~KeepsNode(soup, Head(todo), article)
    /\ todo' = Tail(todo)
    /\ UNCHANGED <<html, soup, paragraphs, sections, pc, article, nodes, visited, result,
                   raised, cnode, cmode, ctext>>

\* line 228, nodes found: metadata and node texts joined
ReturnJoined ==
    /\ pc = "collect"
    /\ todo = <<>>
    /\ nodes # <<>>
    /\ ~MetadataRaises(soup)
    /\ result' = Joined(soup, nodes)
    /\ pc' = "done"
    /\ UNCHANGED <<html, soup, paragraphs, sections, article, todo, nodes,
                   visited, raised, cnode, cmode, ctext>>

\* line 228, nodes found, and line 294 raises KeyError
RaiseKeyError ==
    /\ pc = "collect"
    /\ todo = <<>>
    /\ nodes # <<>>
    /\ MetadataRaises(soup)
    /\ raised' = TRUE
    /\ pc' = "done"
    /\ UNCHANGED <<html, soup, paragraphs, sections, article, todo, nodes,
                   visited, result, cnode, cmode, ctext>>

\* line 228, no nodes: the default text handler
ReturnDefault ==
    /\ pc = "collect"
    /\ todo = <<>>
    /\ nodes = <<>>
    /\ result' = Default(soup)
    /\ pc' = "done"
    /\ UNCHANGED <<html, soup, paragraphs, sections, article, todo, nodes,
                   visited, raised, cnode, cmode, ctext>>

\* process only tests its argument article for truth
ArticleModes == {NoArticle, "article"}

\* Extract.process(node, article) on a node of the tree: the call the
\* loop of __call__ makes for a scope element and the rules make for each
\* child, list item and table cell
ProcessNode ==
    /\ pc = "decomposed"
    /\ \E p \in Range(Descendants(soup, <<>>)), art \in ArticleModes :
          /\ cnode' = p
          /\ cmode' = art
          /\ ctext' = Process(soup, p, art)
    /\ pc' = "processed"
    /\ UNCHANGED <<html, soup, paragraphs, sections, article, todo, nodes,
                   visited, result, raised>>

Next ==
    \/ Decompose
    \/ FindArticle
    \/ VisitNode
    \/ SkipNode
    \/ ReturnJoined
    \/ RaiseKeyError
    \/ ReturnDefault
    \/ ProcessNode

Init ==
    /\ html \in Documents
    /\ soup = html
    /\ paragraphs \in BOOLEAN
    /\ sections \in BOOLEAN
    /\ pc = "parsed"
    /\ article = NoArticle
    /\ todo = <<>>
    /\ nodes = <<>>
    /\ visited = <<>>
    /\ result = <<>>
    /\ raised = FALSE
    /\ cnode = <<>>
    /\ cmode = NoArticle
    /\ ctext = <<>>

Spec == Init /\ [][Next]_vars

-----------------------------------------------------------------------------
(* Properties                                                              *)

\* process has been called: cnode and ctext are its node and its result
Called == cnode # <<>>

Chars(s) == {s[i] : i \in DOMAIN s}

\* the heading of claim C1: non-blank text, class page, section mode
PageHeading ==
    /\ Called
    /\ IsHeader(soup, cnode)
    /\ Strip(TextAt(soup, cnode)) # <<>>
    /\ IsPage(soup, cnode)
    /\ sections

\* break character, the #s of the level, a space
HeadingLead(name) == <<FF>> \o Repeat(<<"#">>, HeaderLevel(name)) \o <<SP>>

StartsWith(s, prefix) ==
    Len(s) >= Len(prefix) /\ SubSeq(s, 1, Len(prefix)) = prefix

RowsOf(t) == FindAll(soup, t, {"tr"})
CellsOf(row) == FindAll(soup, row, {"th", "td"})

\* a separator line of m cells
SeparatorLine(m) == Repeat(<<"|", "-", "-", "-">>, m) \o <<"|">>

IsSeparatorLine(l) == \E m \in 0..Len(l) : l = SeparatorLine(m)

\* |cell|...|cell|
IsRowLine(l) ==
    Len(l) >= 2 /\ l[1] = "|" /\ l[Len(l)] = "|" /\ ~IsSeparatorLine(l)

\* process was called on a table that has rows
TableCalled == Called /\ NameAt(soup, cnode) = "table" /\ RowsOf(cnode) # <<>>

\* every row of the table has m cells
HasColumns(t, m) == \A i \in 1..Len(RowsOf(t)) : Len(CellsOf(RowsOf(t)[i])) = m

\* the lines of the table rule's output are n rows, with one separator of
\* m cells after the first when n > 1
TableLines(lines, n, m) ==
    IF n > 1
    THEN /\ Len(lines) = n + 1
         /\ lines[2] = SeparatorLine(m)
         /\ \A i \in (1..(n + 1)) \ {2} : IsRowLine(lines[i])
    ELSE /\ Len(lines) = 1
         /\ IsRowLine(lines[1])

\* C2 as stated: a table of N rows and M columns converts to N row lines,
\* with exactly one separator line of M cells right after the first row
\* when N > 1 and no separator line when N = 1.
C2_TableLines ==
    \A m \in 1..(MaxCols + 1) :
        (TableCalled /\ HasColumns(cnode, m)) =>
            TableLines(Split(ctext, NL), Len(RowsOf(cnode)), m)

\* no cell of the table converts to a text with a line break in it
SingleLineCells(t, art) ==
    \A i \in 1..Len(RowsOf(t)) :
        \A j \in 1..Len(CellsOf(RowsOf(t)[i])) :
            NL \notin Chars(Process(soup, CellsOf(RowsOf(t)[i])[j], art))

\* C2 amended: when no cell converts to a text with a line break in it, a
\* table with N <tr> descendants whose first row has M cells converts to N
\* row lines, with exactly one separator line of M cells right after the
\* first row when N > 1 and no separator line when N = 1.
C2_TableLinesOfSingleLineCells ==
    (TableCalled /\ SingleLineCells(cnode, cmode)) =>
        TableLines(Split(ctext, NL), Len(RowsOf(cnode)),
                   Len(CellsOf(RowsOf(cnode)[1])))

C2_Witness ==
    /\ TableCalled
    /\ SingleLineCells(cnode, cmode)
    /\ Len(RowsOf(cnode)) = 3
    /\ HasColumns(cnode, 2)
    /\ Len(Split(ctext, NL)) = 4

\* process was called with the root mode __call__ finds for the document
InCallMode == Called /\ cmode = ArticleOf(soup)

\* process was called on a list
ListCalled(name) == InCallMode /\ NameAt(soup, cnode) = name

ItemsOf(l) == FindAll(soup, l, {"li"})

\* every <li> of the list holds text only
FlatList(l) ==
    \A i \in 1..Len(ItemsOf(l)) :
        \A j \in 1..Len(NodeAt(soup, ItemsOf(l)[i]).kids) :
            NodeAt(soup, ItemsOf(l)[i]).kids[j].name = ""

\* the lines of a text; a text without characters has none
LinesOf(text) == IF text = <<>> THEN <<>> ELSE Split(text, NL)

\* C3 as stated, for lists whose items hold text only: the k-th line of an
\* ordered list's output carries the number k, so that an empty item leaves
\* no gap in the numbering.
C3_ConsecutiveNumbers ==
    (ListCalled("ol") /\ FlatList(cnode)) =>
        \A k \in 1..Len(LinesOf(ctext)) :
            StartsWith(LinesOf(ctext)[k], Decimal(k) \o <<".", SP>>)

\* how often the character ch occurs in s
Count(ch, s) == Cardinality({i \in DOMAIN s : s[i] = ch})

\* the <li> descendants that convert to a non-empty text
NonEmptyItems(l, art) ==
    SelectSeq(ItemsOf(l), LAMBDA q : Process(soup, q, art) # <<>>)

\* C4 as stated: an unordered list's output has one line per <li>
\* descendant with non-empty converted text, each line prefixed "- ", and
\* no character of the list's text is emitted more often than it occurs.
C4_OneLinePerItem ==
    ListCalled("ul") =>
        /\ Len(LinesOf(ctext)) = Len(NonEmptyItems(cnode, cmode))
        /\ \A k \in 1..Len(LinesOf(ctext)) : StartsWith(LinesOf(ctext)[k], <<"-", SP>>)
        /\ \A ch \in Chars(TextAt(soup, cnode)) \ {SP, NL} :
               Count(ch, ctext) <= Count(ch, TextAt(soup, cnode))

\* the node or one of its ancestors is an <a>
InLink(p) == \E k \in 0..Len(p) : NameAt(soup, SubSeq(p, 1, k)) = "a"

InCell(p) == NameAt(soup, ParentPath(p)) \in {"th", "td"}

\* process was called on a node with non-blank text that is in a link
LinkCalled == Called /\ Strip(TextAt(soup, cnode)) # <<>> /\ InLink(cnode)

\* C5 as stated: a node with non-blank text in a link, whose parent is no
\* table cell, converts to the empty string in article mode and to a
\* non-empty text otherwise.
C5_LinkSuppressed ==
    (LinkCalled /\ ~InCell(cnode)) =>
        IF cmode # NoArticle THEN ctext = <<>> ELSE ctext # <<>>

\* the node is one the dispatch resolves by the heading rule or by the
\* inline text rule
TextRuleNode(p, art) ==
    \/ IsHeader(soup, p)
    \/ /\ NameAt(soup, p) \notin
            {"blockquote", "q", "ul", "ol", "code", "pre", "table", "aside",
             "header", "footer"}
       /\ ~IsContainer(soup, p, Children(soup, p))

ArticleTags == {"p", "th", "td", "li", "a", "b", "strong", "i", "em"}

\* C5 amended: the claim holds of the nodes the dispatch resolves by the
\* heading rule or the inline text rule.  Such a node with non-blank text
\* in a link, whose parent is no table cell, converts in article mode to no
\* text (the empty string, or the page break alone when it carries the
\* class page in section mode) and otherwise to a non-empty text.  When its
\* parent is a table cell and its tag is an article text tag or a heading,
\* it converts to a non-empty text in article mode too.
C5_TextRuleLinkSuppressed ==
    (LinkCalled /\ TextRuleNode(cnode, cmode)) =>
        IF InCell(cnode)
        THEN (NameAt(soup, cnode) \in ArticleTags \/ IsHeader(soup, cnode))
                => Chars(ctext) \ Whitespace # {}
        ELSE IF cmode # NoArticle
        THEN ctext = (IF IsPage(soup, cnode) /\ sections /\ ~IsHeader(soup, cnode)
                      THEN <<FF>> ELSE <<>>)
        ELSE Chars(ctext) \ Whitespace # {}

C5_Witness ==
    /\ LinkCalled
    /\ TextRuleNode(cnode, cmode)
    /\ ~InCell(cnode)
    /\ NameAt(soup, cnode) = "b"
    /\ cmode = "article"
    /\ ctext = <<>>

C5_CellWitness ==
    /\ LinkCalled
    /\ InCell(cnode)
    /\ NameAt(soup, cnode) = "a"
    /\ cmode = "article"
    /\ ctext # <<>>

\* the piece the inline text rule owes to the child x by its own tag
OwnTagPiece(x) ==
    LET name == NameAt(soup, x)
        t == Strip(TextAt(soup, x))
    IN  IF t = <<>> THEN TextAt(soup, x)
        ELSE IF name \in {"b", "strong"} THEN <<"*", "*">> \o t \o <<"*", "*", SP>>
        ELSE IF name \in {"i", "em"} THEN <<"*">> \o t \o <<"*", SP>>
        ELSE IF name = "a"
             THEN <<"[">> \o t \o <<"]", "(">>
                    \o (IF NodeAt(soup, x).href = <<>> THEN NoneText
                        ELSE NodeAt(soup, x).href[1]) \o <<")", SP>>
        ELSE TextAt(soup, x)

\* the markers the child x owes to its own tag
OwnTagStars(x) ==
    IF Strip(TextAt(soup, x)) = <<>> THEN 0
    ELSE IF NameAt(soup, x) \in {"b", "strong"} THEN 4
    ELSE IF NameAt(soup, x) \in {"i", "em"} THEN 2
    ELSE 0

RECURSIVE Sum(_)
Sum(ns) == IF ns = <<>> THEN 0 ELSE Head(ns) + Sum(Tail(ns))

\* process was called on a plain element that has children and is resolved
\* by the inline text rule
InlineCalled ==
    /\ Called
    /\ NameAt(soup, cnode) \in {"p", "span", "td", "th", "li", "nav", "section"}
    /\ Children(soup, cnode) # <<>>
    /\ ~IsContainer(soup, cnode, Children(soup, cnode))

\* the children of the node process was called on
Kids == Children(soup, cnode)

\* C6: the text of the inline text rule is the concatenation, in document
\* order and without separator, of one piece per child, and the piece of an
\* element child is decided by the child's own tag and whole stripped
\* text: tags nested inside the child add no markers.
C6_InlinePieces ==
    InlineCalled =>
        /\ cmode = NoArticle =>
             ctext = Join(<<>>, [i \in 1..Len(Kids) |-> OwnTagPiece(Kids[i])])
                       \o (IF IsPage(soup, cnode) /\ sections THEN <<FF>> ELSE <<>>)
        /\ Chars(ctext) \ {FF} # {} =>
             Count("*", ctext) = Sum([i \in 1..Len(Kids) |-> OwnTagStars(Kids[i])])

C6_Witness ==
    /\ InlineCalled
    /\ cmode = NoArticle
    /\ Len(Kids) = 3
    /\ NameAt(soup, Kids[2]) = "strong"
    /\ NameAt(soup, Kids[2] \o <<1>>) = "i"
    /\ NameAt(soup, Kids[3]) = "em"
    /\ NameAt(soup, Kids[3] \o <<1>>) = "strong"
    /\ ctext = <<"w", SP, "*", "*", "t", "*", "*", SP, "*", "t", "l", "*", SP>>

\* the title and the description the metadata rule finds, formatted
TitlePart ==
    LET title == Find(soup, {"title"})
    IN  IF title # <<>> /\ TextAt(soup, title[1]) # <<>>
        THEN <<<<"*", "*">> \o Strip(TextAt(soup, title[1])) \o <<"*", "*">>>>
        ELSE <<>>

DescriptionPart ==
    LET description == FindDescription(soup)
    IN  IF description # <<>> /\ NodeAt(soup, description[1]).content \notin {<<>>, <<<<>>>>}
        THEN <<<<NL, "*">> \o Strip(NodeAt(soup, description[1]).content[1]) \o <<"*">>>>
        ELSE <<>>

\* **title**, a blank line, *description*
Preamble == Join(<<NL>>, TitlePart \o DescriptionPart)

Separator == IF sections THEN <<FF>> ELSE <<NL, NL>>

\* __call__ returned the joined text, with a metadata preamble
PreambleReturned ==
    /\ pc = "done"
    /\ ~raised
    /\ nodes # <<>>
    /\ TitlePart \o DescriptionPart # <<>>

\* C7 as stated: the preamble is followed immediately by exactly one
\* separator, and the first content fragment follows the separator.
C7_SeparatorImmediately ==
    PreambleReturned => result = Preamble \o Separator \o Join(<<NL>>, nodes)

\* C7 amended: the preamble is followed by exactly one separator before the
\* first content fragment, and the newline that joins the parts of the
\* output stands on both sides of the separator: the output is the
\* preamble, a newline, the separator, a newline, the content fragments.
C7_SeparatorBetweenNewlines ==
    PreambleReturned =>
        result = Preamble \o <<NL>> \o Separator \o <<NL>> \o Join(<<NL>>, nodes)

C7_Witness ==
    /\ PreambleReturned
    /\ TitlePart # <<>>
    /\ DescriptionPart # <<>>
    /\ sections
    /\ StartsWith(result, <<"*", "*", "T", "*", "*", NL, NL, "*", "D", "*", NL, FF, NL>>)

\* C8 as stated: the conversion pass never ends by raising.
C8_NeverRaises == pc = "done" => ~raised

\* no proper ancestor of the node is an element process skips
NotInsideSkipped(p) ==
    \A k \in 0..(Len(p) - 1) :
        NameAt(soup, SubSeq(p, 1, k)) \notin {"aside", "header", "footer"}

\* C9 as stated: the text of an <aside> (z in every input), and outside
\* article mode the text of a <header> or <footer> (y in every input), is
\* never in the output of the converter.
C9_SkippedTextNeverEmitted ==
    (InCallMode /\ NotInsideSkipped(cnode)) =>
        /\ "z" \notin Chars(ctext)
        /\ cmode = NoArticle => "y" \notin Chars(ctext)

\* the elements of the tree in document order
AllNodes == Descendants(soup, <<>>)

\* the tags of the elements in `all`
TagsOf(all) == {NameAt(soup, all[i]) : i \in 1..Len(all)}

\* the scope tag of the structure selector
ScopeTagOf(all) ==
    IF "article" \in TagsOf(all) THEN "article"
    ELSE IF "main" \in TagsOf(all) THEN "main"
    ELSE "body"

\* q is a descendant of p
Below(p, q) == Len(q) > Len(p) /\ SubSeq(q, 1, Len(p)) = p

\* the paths of the <p> elements in `all`
ParagraphsOf(all) == {all[i] : i \in {j \in 1..Len(all) : NameAt(soup, all[j]) = "p"}}

\* the element at p survives the selection: no article or main mode, or a
\* <p> below it
Survives(p, scope, paras) == scope = "body" \/ \E q \in paras : Below(p, q)

\* C10: the top-level nodes are the <article> elements if there is one,
\* else the <main> elements if there is one, else the <body> elements; in
\* article or main mode those without a <p> descendant are discarded; the
\* others are converted in document order.
C10_TopLevelNodes ==
    pc \in {"collect", "done"} =>
        LET all == AllNodes
            scope == ScopeTagOf(all)
            paras == ParagraphsOf(all)
            collected == SelectSeq(all, LAMBDA q : NameAt(soup, q) = scope)
            survivors == SelectSeq(collected, LAMBDA q : Survives(q, scope, paras))
        IN  /\ article = (IF scope = "body" THEN NoArticle ELSE scope)
            /\ visited \o SelectSeq(todo, LAMBDA q : Survives(q, scope, paras))
                 = survivors
            /\ nodes = [i \in 1..Len(visited) |-> Process(soup, visited[i], article)]
            /\ \A i \in 1..Len(visited) : NameAt(soup, visited[i]) = scope
            /\ pc = "done" => visited = survivors

C10_Witness ==
    /\ pc = "done"
    /\ {"article", "main"} \subseteq TagsOf(AllNodes)
    /\ Len(SelectSeq(AllNodes, LAMBDA q : NameAt(soup, q) = "article")) = 2
    /\ Len(visited) = 1
    /\ NameAt(soup, visited[1]) = "article"
    /\ result # <<>>

\* the document has an element that the structure selector looks for
HasScopeElement == TagsOf(AllNodes) \cap {"article", "main", "body"} # {}

FallbackRan == pc = "done" /\ nodes = <<>>

\* the number of # characters the line begins with
LeadingHashes(line) ==
    Cardinality({k \in 1..Len(line) : \A j \in 1..k : line[j] = "#"})

\* the line begins with one or more # followed by a space
HeadingLine(line) ==
    /\ LeadingHashes(line) >= 1
    /\ Len(line) > LeadingHashes(line)
    /\ line[LeadingHashes(line) + 1] = SP

\* C12: the output of the fallback extractor has the lines of the flat text
\* of the tree it reads, unchanged and in order, except that with sections
\* enabled exactly the lines that begin with one or more # and a space carry
\* one section-break character in front; with sections disabled the output
\* is the flat text itself.
C12_FallbackLines ==
    FallbackRan =>
        LET text == TextOf(soup)
            src == Split(text, NL)
            out == Split(result, NL)
        IN  /\ Len(out) = Len(src)
            /\ \A i \in 1..Len(src) :
                  out[i] = IF sections /\ HeadingLine(src[i])
                           THEN <<FF>> \o src[i] ELSE src[i]
            /\ ~sections => result = text

C12_Witness ==
    /\ FallbackRan
    /\ sections
    /\ Len(Split(TextOf(soup), NL)) = 5
    /\ Count(FF, result) = 2
    /\ result[1] = FF
    /\ Count(NL, result) = Count(NL, TextOf(soup))

\* the tree d has no <script> and no <style> element
NoScriptOrStyle(d) ==
    \A p \in Range(Descendants(d, <<>>)) : NameAt(d, p) \notin {"script", "style"}

\* the text of a <script> (j in every input) or of a <style> (k in every
\* input) is not in s
NoScriptText(s) == "j" \notin Chars(s) /\ "k" \notin Chars(s)

\* C13: in every state from which a step reads the tree (root-mode
\* detection, node collection, metadata extraction, conversion, fallback)
\* the script and style subtrees are already removed and the rest of the
\* tree is as parsed; no text of a <script> or <style> element is in a
\* converted node or in the output, on the converter path or on the fallback
\* path.
C13_RemovalBeforeTraversal ==
    /\ pc # "parsed" =>
          /\ NoScriptOrStyle(soup)
          /\ Len(TextOf(soup)) = Len(TextOf(html)) - Count("j", TextOf(html))
                                   - Count("k", TextOf(html))
    /\ pc = "parsed" => (soup = html /\ nodes = <<>> /\ result = <<>> /\ ~Called)
    /\ NoScriptText(ctext)
    /\ \A i \in 1..Len(nodes) : NoScriptText(nodes[i])
    /\ NoScriptText(result)

C13_Witness ==
    /\ pc = "done"
    /\ ~NoScriptOrStyle(html)
    /\ "j" \in Chars(TextOf(html))
    /\ nodes # <<>>
    /\ "b" \in Chars(result)

====
